---- MODULE Spec2Model ----
(***************************************************************************)
(* Lead-Qualification-Agent: src/app.py.                                   *)
(*                                                                         *)
(* The Streamlit script is executed top to bottom on every interaction.    *)
(* One execution of the script is one "run": it reads the credential,      *)
(* renders the sidebar and the two forms, validates the submitted form,    *)
(* creates the four agents, builds the four tasks of the chosen adapter,   *)
(* lets the sequential crew execute them and displays the outcome.         *)
(*                                                                         *)
(* Text is modelled as a sequence of one-character strings, so that the    *)
(* regular expression of the validation and the joins of the prompts are   *)
(* computed and not assumed.                                               *)
(***************************************************************************)
EXTENDS Integers, Sequences, FiniteSets, TLC

VARIABLES
    environ,           \* os.environ["OPENAI_API_KEY"]: <<>> absent, <<text>> set
    run,               \* number of script executions started so far
    pc,                \* position of the script
    config,            \* render_sidebar()'s return value
    sender_email, email_subject, email_content,
    form_name, form_company, form_designation, form_email, form_query,
    email_submitted, form_submitted,
    input_method,      \* "unset", "email" or "form"
    checked,           \* the names of the fields the validation has tested
    agents,            \* <<>> or <<the dict create_lead_qualification_crew returns>>
    tasks,             \* crew.tasks: the sequence of Task objects
    task_outputs,      \* the outputs of the tasks completed by kickoff(), in order
    running,           \* the indices of the tasks an agent is executing now
    stageLog,          \* one entry per task execution started in this run
    raised,            \* <<>> or <<the exception caught at line 473>>
    result,            \* <<>> or <<what the adapter returned>>
    status,            \* the st.status box: <<>> or <<[label, state]>>
    page               \* what the script has displayed in this run, in order

fields == <<sender_email, email_subject, email_content,
            form_name, form_company, form_designation, form_email, form_query>>
flags  == <<email_submitted, form_submitted>>
crew   == <<agents, tasks, task_outputs, running, stageLog, raised, result>>
vars   == <<environ, run, pc, config, fields, flags, input_method, checked,
            crew, status, page>>

(***************************************************************************)
(* Bounds and input domains                                                *)
(***************************************************************************)
MaxRuns == 3

NoText == <<>>

\* What a user types into a required or optional text field.
TextInputs == { NoText, <<"x">> }

\* What a user types into an e-mail field.
EmailInputs ==
    { NoText,
      <<"a", "@", "a">>,
      <<"a", ".", "a">>,
      <<"a", "@", "a", ".", "a">>,
      <<"@", "a", ".", "a">>,
      <<"a", "@", ".", "a">>,
      <<"a", "@", "a", ".">>,
      <<"a", "@", "a", ".", "a", "@">> }

\* What the external model may answer: free text, never parsed.
LLMTexts == { "text", "json" }


(***************************************************************************)
(* Pure helpers: Python truthiness, re.match, str.join, os.environ.get     *)
(***************************************************************************)
Truthy(t) == t # NoText

All(ts) == \A i \in 1..Len(ts) : Truthy(ts[i])

\* s[from..to] is a non-empty run of characters other than "@": [^@]+
NotAtRun(s, from, to) ==
    /\ from <= to
    /\ \A n \in from..to : s[n] # "@"

\* re.match(r'^[^@]+@[^@]+\.[^@]+$', s): some split of s fits the pattern
ReMatch(s) ==
    \E i \in 1..Len(s) : \E j \in 1..Len(s) :
        /\ i < j
        /\ NotAtRun(s, 1, i - 1)
        /\ s[i] = "@"
        /\ NotAtRun(s, i + 1, j - 1)
        /\ s[j] = "."
        /\ NotAtRun(s, j + 1, Len(s))

RECURSIVE Join(_)
\* ', '.join(list)
Join(list) ==
    IF list = <<>> THEN <<>>
    ELSE IF Len(list) = 1 THEN <<list[1]>>
    ELSE <<list[1], ", ">> \o Join(Tail(list))

EnvGet(env, default) == IF env = <<>> THEN default ELSE env[1]

(***************************************************************************)
(* Sidebar: render_sidebar()                                               *)
(***************************************************************************)
DefaultTargets ==
    [ industries    |-> <<"Technology", "Healthcare">>,
      company_sizes |-> <<"SMB (51-500)", "Enterprise (500+)">>,
      regions       |-> <<"North America", "Europe">> ]

\* What the operator leaves selected in the sidebar: the defaults, or another
\* model with narrower targets (a multiselect may be left with no entry).
SidebarOptions ==
    { [ model |-> "gpt-4o", target_config |-> DefaultTargets ],
      [ model |-> "gpt-4o-mini",
        target_config |->
            [ industries    |-> <<"Technology">>,
              company_sizes |-> <<"Enterprise (500+)">>,
              regions       |-> <<>> ] ] }

(***************************************************************************)
(* create_lead_qualification_crew                                          *)
(***************************************************************************)
NewAgent(role, llm) == [ role |-> role, llm |-> llm, allow_delegation |-> FALSE ]

create_lead_qualification_crew(model_name) ==
    [ email_parser         |-> NewAgent("Email Information Extractor", model_name),
      company_researcher   |-> NewAgent("Company Research Specialist", model_name),
      lead_scorer          |-> NewAgent("Lead Qualification Specialist", model_name),
      recommendation_agent |-> NewAgent("Sales Strategy Advisor", model_name),
      llm                  |-> model_name ]

(***************************************************************************)
(* The scoring rubric, as the text of the e-mail adapter's score_task      *)
(* states it                                                               *)
(***************************************************************************)
Rubric ==
    [ domain_bands |-> { 20, 10, 0 },
      industry     |-> 20,
      company_size |-> 10,
      location     |-> 10,
      role_bands   |-> { 20, 10, 0 },
      intent_bands |-> { 20, 10, 0 },
      out_of       |-> 100,
      qualified    |-> 80,
      needs_review |-> 50 ]

FitScore(rb, industryMatch, sizeMatch, locationMatch) ==
      (IF industryMatch THEN rb.industry ELSE 0)
    + (IF sizeMatch THEN rb.company_size ELSE 0)
    + (IF locationMatch THEN rb.location ELSE 0)

TotalScore(domain_score, fit_score, role_score, intent_score) ==
    domain_score + fit_score + role_score + intent_score

QualificationStatus(rb, total_score) ==
    IF total_score >= rb.qualified THEN "Qualified"
    ELSE IF total_score >= rb.needs_review THEN "Needs Review"
    ELSE "Unqualified"

(***************************************************************************)
(* Tasks.  A description is the template of the f-string, the values       *)
(* formatted into it and the rubric its text carries (none: <<>>).         *)
(***************************************************************************)
Description(template, inputs, rubric) ==
    [ template |-> template, inputs |-> inputs, rubric |-> rubric ]

Task(name, description, agent, expected_output, context) ==
    [ name |-> name, description |-> description, agent |-> agent,
      expected_output |-> expected_output, context |-> context ]

TargetCriteria(target_config) ==
    << Join(target_config.industries),
       Join(target_config.company_sizes),
       Join(target_config.regions) >>

EmailScoreDescription(target_config) ==
    Description("email.score", TargetCriteria(target_config), <<Rubric>>)

\* Mutant: the form adapter formats the default targets, not the chosen ones.
FormScoreDescription_Defaults(target_config) ==
    Description("form.score", TargetCriteria(DefaultTargets), <<>>)

FormScoreDescription(target_config) ==
    Description("form.score", TargetCriteria(target_config), <<>>)

EmailTasks(ag, se, subject, content, target_config) ==
    << Task("parse_task",
            Description("email.parse", <<se, subject, content>>, <<>>),
            ag.email_parser,
            "Structured JSON with sender_name, company_name, designation, domain, and intent",
            <<>>),
       Task("research_task",
            Description("email.research", <<>>, <<>>),
            ag.company_researcher,
            "JSON with industry, company_size, location, and domain_type",
            <<"parse_task">>),
       Task("score_task",
            EmailScoreDescription(target_config),
            ag.lead_scorer,
            "JSON with total_score, score_breakdown, and qualification_status",
            <<"parse_task", "research_task">>),
       Task("recommendation_task",
            Description("email.recommend", <<>>, <<>>),
            ag.recommendation_agent,
            "Detailed recommendations with next steps and priority",
            <<"parse_task", "research_task", "score_task">>) >>

NotProvided == <<"N", "o", "t", " ", "p", "r", "o", "v", "i", "d", "e", "d">>

\* designation or 'Not provided'
OrNotProvided(designation) ==
    IF Truthy(designation) THEN designation ELSE NotProvided

FormTasks(ag, name, company, designation, email, query, target_config) ==
    << Task("structure_task",
            Description("form.structure",
                        <<name, company, OrNotProvided(designation), email, query>>,
                        <<>>),
            ag.email_parser,
            "Structured JSON with all form data and domain analysis",
            <<>>),
       Task("research_task",
            Description("form.research", <<company>>, <<>>),
            ag.company_researcher,
            "JSON with industry, company_size, and location",
            <<"structure_task">>),
       Task("score_task",
            FormScoreDescription(target_config),
            ag.lead_scorer,
            "JSON with total_score, score_breakdown, and qualification_status",
            <<"structure_task", "research_task">>),
       Task("recommendation_task",
            Description("form.recommend", <<>>, <<>>),
            ag.recommendation_agent,
            "Detailed recommendations with next steps",
            <<"structure_task", "research_task", "score_task">>) >>

(***************************************************************************)
(* Crew(process=Process.sequential).kickoff(): the tasks are executed in   *)
(* the order of the list, one at a time; a task is handed the outputs of   *)
(* the tasks named in its context.                                         *)
(***************************************************************************)
\* The task kickoff() executes next, given how many have completed.
NextTask(completed) == completed + 1

\* Mutant: the next task is started without waiting for the running one.
MayStart_NoWait(ts, outs, busy) ==
    NextTask(Len(outs)) \in 1..Len(ts)

\* May a task be started now?
MayStart(ts, outs, busy) ==
    /\ busy = {}
    /\ NextTask(Len(outs)) \in 1..Len(ts)

\* Mutant: a task is handed the output of the task before it only.
TaskContext_LastOnly(task, outs) ==
    IF outs = <<>> THEN <<>> ELSE << outs[Len(outs)] >>

\* The prior outputs attached to a task: those of the tasks in task.context.
TaskContext(task, outs) ==
    SelectSeq(outs, LAMBDA o :
        \E n \in 1..Len(task.context) : task.context[n] = o.task)

TaskOutput(r, k, task, text) ==
    [ run |-> r, stage |-> k, task |-> task.name, kind |-> "output", text |-> text ]

Failure(r, k, text) ==
    [ run |-> r, stage |-> k, task |-> "", kind |-> "error", text |-> text ]

(***************************************************************************)
(* The script                                                              *)
(***************************************************************************)
Shown(kind, body) == [ kind |-> kind, body |-> body ]

Status(label, state) == [ label |-> label, state |-> state ]

\* Mutant: the test is for the variable's presence, not for its value.
CredentialMissing_AbsentOnly(env) == env = <<>>

\* if not os.environ.get("OPENAI_API_KEY")
CredentialMissing(env) == ~Truthy(EnvGet(env, NoText))

\* The form whose fields lines 409-424 validate.
Submitted == IF email_submitted THEN "email" ELSE "form"

RequiredNames(method) ==
    IF method = "email"
    THEN <<"sender_email", "email_subject", "email_content">>
    ELSE <<"form_name", "form_company", "form_email", "form_query">>

\* Mutant: the query is left out of the list of required fields.
RequiredFields_NoQuery(method) ==
    IF method = "email"
    THEN <<sender_email, email_subject, email_content>>
    ELSE <<form_name, form_company, form_email>>

\* The list handed to all(...): lines 410 and 418.
RequiredFields(method) ==
    IF method = "email"
    THEN <<sender_email, email_subject, email_content>>
    ELSE <<form_name, form_company, form_email, form_query>>

\* The string handed to re.match: lines 413 and 421.
AddressField(method) == IF method = "email" THEN sender_email ELSE form_email

\* Mutant: the dispatch calls the adapter of the other form.
AdapterTasks_Crossed(method) ==
    IF method = "email"
    THEN FormTasks(agents[1], form_name, form_company, form_designation,
                   form_email, form_query, config[1].target_config)
    ELSE EmailTasks(agents[1], sender_email, email_subject, email_content,
                    config[1].target_config)

\* The tasks of the adapter that lines 433-452 call.
AdapterTasks(method) ==
    IF method = "email"
    THEN EmailTasks(agents[1], sender_email, email_subject, email_content,
                    config[1].target_config)
    ELSE FormTasks(agents[1], form_name, form_company, form_designation,
                   form_email, form_query, config[1].target_config)

Init ==
    /\ environ \in { <<>>, <<NoText>>, << <<"k">> >> }
    /\ run = 0
    /\ pc = "idle"
    /\ config = <<>>
    /\ sender_email = NoText /\ email_subject = NoText /\ email_content = NoText
    /\ form_name = NoText /\ form_company = NoText /\ form_designation = NoText
    /\ form_email = NoText /\ form_query = NoText
    /\ email_submitted = FALSE /\ form_submitted = FALSE
    /\ input_method = "unset"
    /\ checked = {}
    /\ agents = <<>> /\ tasks = <<>> /\ task_outputs = <<>>
    /\ running = {} /\ stageLog = <<>> /\ raised = <<>> /\ result = <<>>
    /\ status = <<>>
    /\ page = <<>>

\* A page load or a widget interaction: Streamlit executes the script anew.
\* The values typed into the forms live in the session; the script's own
\* variables and the page do not survive.
Rerun ==
    /\ pc = "idle"
    /\ run < MaxRuns
    /\ run' = run + 1
    /\ pc' = "boot"
    /\ config' = <<>>
    /\ email_submitted' = FALSE /\ form_submitted' = FALSE
    /\ input_method' = "unset"
    /\ checked' = {}
    /\ agents' = <<>> /\ tasks' = <<>> /\ task_outputs' = <<>>
    /\ running' = {} /\ stageLog' = <<>> /\ raised' = <<>> /\ result' = <<>>
    /\ status' = <<>>
    /\ page' = <<>>
    /\ UNCHANGED <<environ, fields>>

\* line 16
SetApiKey ==
    /\ pc = "boot"
    /\ environ' = <<EnvGet(environ, NoText)>>
    /\ pc' = "sidebar"
    /\ UNCHANGED <<run, config, fields, flags, input_method, checked, crew,
                   status, page>>

\* line 364
RenderSidebar ==
    /\ pc = "sidebar"
    /\ \E choice \in SidebarOptions : config' = << choice >>
    /\ pc' = "credential"
    /\ UNCHANGED <<environ, run, fields, flags, input_method, checked, crew,
                   status, page>>

\* lines 366-368, the credential is missing: st.error, st.stop
StopNoCredential ==
    /\ pc = "credential"
    /\ CredentialMissing(environ)
    /\ page' = Append(page, Shown("error.credential", <<>>))
    /\ pc' = "idle"
    /\ UNCHANGED <<environ, run, config, fields, flags, input_method, checked,
                   crew, status>>

\* lines 366-373, the credential is there
CredentialPresent ==
    /\ pc = "credential"
    /\ ~CredentialMissing(environ)
    /\ pc' = "forms"
    /\ UNCHANGED <<environ, run, config, fields, flags, input_method, checked,
                   crew, status, page>>

\* lines 375-405, the e-mail form's button was pressed: its fields arrive.
\* A button can be pressed only on a page an earlier execution has rendered.
RenderFormsEmailSubmitted ==
    /\ pc = "forms"
    /\ run > 1
    /\ \E e \in EmailInputs : \E s \in TextInputs : \E c \in TextInputs :
          /\ sender_email' = e
          /\ email_subject' = s
          /\ email_content' = c
    /\ email_submitted' = TRUE
    /\ form_submitted' = FALSE
    /\ pc' = "process"
    /\ UNCHANGED <<environ, run, config, form_name, form_company,
                   form_designation, form_email, form_query, input_method,
                   checked, crew, status, page>>

\* lines 375-405, the other form's button was pressed
RenderFormsFormSubmitted ==
    /\ pc = "forms"
    /\ run > 1
    /\ \E n \in TextInputs : \E c \in TextInputs : \E d \in TextInputs :
       \E e \in EmailInputs : \E q \in TextInputs :
          /\ form_name' = n
          /\ form_company' = c
          /\ form_designation' = d
          /\ form_email' = e
          /\ form_query' = q
    /\ email_submitted' = FALSE
    /\ form_submitted' = TRUE
    /\ pc' = "process"
    /\ UNCHANGED <<environ, run, config, sender_email, email_subject,
                   email_content, input_method, checked, crew, status, page>>

\* lines 375-405, no button was pressed (first load, sidebar change)
RenderFormsNoSubmit ==
    /\ pc = "forms"
    /\ email_submitted' = FALSE
    /\ form_submitted' = FALSE
    /\ pc' = "process"
    /\ UNCHANGED <<environ, run, config, fields, input_method, checked, crew,
                   status, page>>

\* line 408 is false
NothingSubmitted ==
    /\ pc = "process"
    /\ ~(email_submitted \/ form_submitted)
    /\ pc' = "footer"
    /\ UNCHANGED <<environ, run, config, fields, flags, input_method, checked,
                   crew, status, page>>

\* lines 410-412 and 418-420
RejectMissingField ==
    /\ pc = "process"
    /\ email_submitted \/ form_submitted
    /\ ~All(RequiredFields(Submitted))
    /\ checked' = { RequiredNames(Submitted)[i] :
                       i \in 1..Len(RequiredNames(Submitted)) }
    /\ page' = Append(page, Shown("error.required", <<>>))
    /\ pc' = "idle"
    /\ UNCHANGED <<environ, run, config, fields, flags, input_method, crew,
                   status>>

\* lines 413-415 and 421-423
RejectAddress ==
    /\ pc = "process"
    /\ email_submitted \/ form_submitted
    /\ All(RequiredFields(Submitted))
    /\ ~ReMatch(AddressField(Submitted))
    /\ checked' = { RequiredNames(Submitted)[i] :
                       i \in 1..Len(RequiredNames(Submitted)) }
    /\ page' = Append(page, Shown("error.address", <<>>))
    /\ pc' = "idle"
    /\ UNCHANGED <<environ, run, config, fields, flags, input_method, crew,
                   status>>

\* lines 408-426, the submission is accepted
Accept ==
    /\ pc = "process"
    /\ email_submitted \/ form_submitted
    /\ All(RequiredFields(Submitted))
    /\ ReMatch(AddressField(Submitted))
    /\ checked' = { RequiredNames(Submitted)[i] :
                       i \in 1..Len(RequiredNames(Submitted)) }
    /\ input_method' = Submitted
    /\ status' = << Status("analyzing", "running") >>
    /\ pc' = "create"
    /\ UNCHANGED <<environ, run, config, fields, flags, crew, page>>

\* lines 429-430
CreateAgents ==
    /\ pc = "create"
    /\ status' = << Status("initializing", "running") >>
    /\ agents' = << create_lead_qualification_crew(config[1].model) >>
    /\ pc' = "adapter"
    /\ UNCHANGED <<environ, run, config, fields, flags, input_method, checked,
                   tasks, task_outputs, running, stageLog, raised, result, page>>

\* lines 429-430, the constructors raise
CreateAgentsRaises ==
    /\ pc = "create"
    /\ status' = << Status("initializing", "running") >>
    /\ raised' = << Failure(run, 0, "init") >>
    /\ pc' = "except"
    /\ UNCHANGED <<environ, run, config, fields, flags, input_method, checked,
                   agents, tasks, task_outputs, running, stageLog, result, page>>

\* lines 433-452 with 80-191 or 197-273: the adapter builds its tasks and crew
BuildCrew ==
    /\ pc = "adapter"
    /\ status' = << Status(IF input_method = "email" THEN "processing email"
                           ELSE "processing form", "running") >>
    /\ tasks' = AdapterTasks(input_method)
    /\ pc' = "kickoff"
    /\ UNCHANGED <<environ, run, config, fields, flags, input_method, checked,
                   agents, task_outputs, running, stageLog, raised, result, page>>

\* lines 193 and 275: kickoff() hands the next task to its agent
StageStart ==
    /\ pc = "kickoff"
    /\ MayStart(tasks, task_outputs, running)
    /\ LET k == NextTask(Len(task_outputs))
           t == tasks[k]
       IN  /\ running' = running \cup {k}
           /\ stageLog' = Append(stageLog,
                 [ stage |-> k, task |-> t.name, agent |-> t.agent,
                   description |-> t.description,
                   context |-> TaskContext(t, task_outputs) ])
    /\ UNCHANGED <<environ, run, pc, config, fields, flags, input_method,
                   checked, agents, tasks, task_outputs, raised, result,
                   status, page>>

\* the external call returns free text
StageReturn ==
    /\ pc = "kickoff"
    /\ \E k \in running : \E text \in LLMTexts :
          /\ task_outputs' = Append(task_outputs,
                                    TaskOutput(run, k, tasks[k], text))
          /\ running' = running \ {k}
    /\ UNCHANGED <<environ, run, pc, config, fields, flags, input_method,
                   checked, agents, tasks, stageLog, raised, result, status,
                   page>>

\* Mutant: the failure is noted and kickoff() carries on with the same task.
StageRaise_Retry ==
    /\ pc = "kickoff"
    /\ raised = <<>>
    /\ \E k \in running :
          /\ raised' = << Failure(run, k, "failed") >>
          /\ running' = running \ {k}
    /\ UNCHANGED <<environ, run, pc, config, fields, flags, input_method,
                   checked, agents, tasks, task_outputs, stageLog, result,
                   status, page>>

\* the external call raises: the exception leaves kickoff() and the adapter
StageRaise ==
    /\ pc = "kickoff"
    /\ \E k \in running :
          /\ raised' = << Failure(run, k, "failed") >>
          /\ running' = running \ {k}
    /\ pc' = "except"
    /\ UNCHANGED <<environ, run, config, fields, flags, input_method, checked,
                   agents, tasks, task_outputs, stageLog, result, status, page>>

\* Mutant: the adapter calls kickoff() a second time to obtain its result.
KickoffReturn_Again ==
    /\ pc = "kickoff"
    /\ running = {}
    /\ Len(task_outputs) = Len(tasks)
    /\ result = <<>>
    /\ result' = << task_outputs[Len(task_outputs)] >>
    /\ task_outputs' = <<>>
    /\ UNCHANGED <<environ, run, pc, config, fields, flags, input_method,
                   checked, agents, tasks, running, stageLog, raised, status,
                   page>>

\* lines 193-194 and 275-276: every task is done, the adapter returns
KickoffReturn ==
    /\ pc = "kickoff"
    /\ running = {}
    /\ Len(task_outputs) = Len(tasks)
    /\ result' = << task_outputs[Len(task_outputs)] >>
    /\ pc' = "display"
    /\ UNCHANGED <<environ, run, config, fields, flags, input_method, checked,
                   agents, tasks, task_outputs, running, stageLog, raised,
                   status, page>>

\* lines 454-471
DisplayResults ==
    /\ pc = "display"
    /\ status' = << Status("complete", "complete") >>
    /\ page' = page \o << Shown("success", <<>>),
                          Shown("info", <<>>),
                          Shown("code", result) >>
    /\ pc' = "footer"
    /\ UNCHANGED <<environ, run, config, fields, flags, input_method, checked,
                   crew>>

\* Mutant: the handler also shows what the completed stages produced.
HandleException_Partial ==
    /\ pc = "except"
    /\ status' = << Status("error", "error") >>
    /\ page' = Append(page, Shown("error.exception", raised \o task_outputs))
    /\ pc' = "footer"
    /\ UNCHANGED <<environ, run, config, fields, flags, input_method, checked,
                   crew>>

\* lines 473-475
HandleException ==
    /\ pc = "except"
    /\ status' = << Status("error", "error") >>
    /\ page' = Append(page, Shown("error.exception", raised))
    /\ pc' = "footer"
    /\ UNCHANGED <<environ, run, config, fields, flags, input_method, checked,
                   crew>>

\* lines 477-484
Footer ==
    /\ pc = "footer"
    /\ page' = Append(page, Shown("footer", <<>>))
    /\ pc' = "idle"
    /\ UNCHANGED <<environ, run, config, fields, flags, input_method, checked,
                   crew, status>>

ScriptStep ==
    \/ SetApiKey \/ RenderSidebar \/ StopNoCredential \/ CredentialPresent
    \/ RenderFormsEmailSubmitted \/ RenderFormsFormSubmitted
    \/ RenderFormsNoSubmit \/ NothingSubmitted
    \/ RejectMissingField \/ RejectAddress \/ Accept
    \/ CreateAgents \/ CreateAgentsRaises \/ BuildCrew
    \/ StageStart \/ StageReturn \/ StageRaise \/ KickoffReturn
    \/ DisplayResults \/ HandleException \/ Footer

Next == Rerun \/ ScriptStep

Spec == Init /\ [][Next]_vars

\* The interpreter runs the script on, and every external call returns or raises.
FairSpec == Spec /\ WF_vars(ScriptStep)

(***************************************************************************)
(* Vocabulary of the properties                                            *)
(***************************************************************************)
StageNames ==
    << {"parse_task", "structure_task"}, {"research_task"},
       {"score_task"}, {"recommendation_task"} >>

StageRoles ==
    << "Email Information Extractor", "Company Research Specialist",
       "Lead Qualification Specialist", "Sales Strategy Advisor" >>

Kinds(k) == { i \in 1..Len(page) : page[i].kind = k }

Accepted == input_method # "unset"

Done == Len(task_outputs) = Len(StageNames) /\ running = {}

Failed == raised # <<>>

ScriptOver == pc = "idle" /\ run > 0

\* C1: in a run that was accepted and in which nothing raised, exactly four
\* stages execute, each once, in the order Extract/Structure, Enrich, Score,
\* Recommend; a stage starts only when the one before it has completed, and
\* at most one stage is in progress at any time.
C1_FourStagesInOrder ==
    /\ Cardinality(running) <= 1
    /\ Len(stageLog) <= Len(StageNames)
    /\ \A i \in 1..Len(stageLog) :
          /\ stageLog[i].stage = i
          /\ stageLog[i].task \in StageNames[i]
          /\ stageLog[i].agent.role = StageRoles[i]
    /\ Len(task_outputs) >= Len(stageLog) - 1
    /\ running \subseteq { Len(stageLog) }
    /\ (ScriptOver /\ Accepted /\ ~Failed) =>
          /\ Len(stageLog) = Len(StageNames)
          /\ Len(task_outputs) = Len(StageNames)

C1_Witness ==
    /\ ScriptOver /\ input_method = "email" /\ ~Failed
    /\ Len(stageLog) = 4 /\ Cardinality(Kinds("code")) = 1

\* C2: the context a stage receives when it starts is exactly the outputs of
\* the stages before it in the same run, in order: all of them, and none of
\* its own, of a later stage or of another run; stage 1 receives none.
C2_ContextIsPriorOutputs ==
    \A i \in 1..Len(stageLog) :
        LET c == stageLog[i].context
            n == stageLog[i].stage
        IN  /\ Len(c) = n - 1
            /\ \A j \in 1..Len(c) :
                  /\ c[j].kind = "output"
                  /\ c[j].stage = j
                  /\ c[j].run = run
                  /\ j <= Len(task_outputs) /\ c[j] = task_outputs[j]

C2_Witness ==
    /\ run = 3 /\ input_method = "form"
    /\ Len(stageLog) = 4 /\ Len(stageLog[4].context) = 3
    /\ stageLog[1].context = <<>>

\* C3: when stage k raises, no later stage executes, stage k is not started
\* again, and the run is reported as failed exactly once; when creating the
\* agents raises (k = 0), no stage executes at all.
C3_FailureAbortsOnce ==
    Failed =>
        /\ Len(stageLog) = raised[1].stage
        /\ \A i \in 1..Len(stageLog) : stageLog[i].stage = i
        /\ Len(task_outputs) = Len(stageLog) - (IF raised[1].stage = 0 THEN 0 ELSE 1)
        /\ running = {}
        /\ result = <<>>
        /\ pc \in { "except", "footer", "idle" }
        /\ Cardinality(Kinds("error.exception")) = (IF pc = "except" THEN 0 ELSE 1)
        /\ pc # "except" => status = << Status("error", "error") >>

C3_Witness ==
    /\ ScriptOver /\ Failed /\ raised[1].stage = 2
    /\ Len(task_outputs) = 1 /\ Cardinality(Kinds("error.exception")) = 1

\* One "@", something before it, and after it a "." with something on both
\* sides.
WellFormedAddress(s) ==
    LET ats == { i \in 1..Len(s) : s[i] = "@" }
    IN  /\ Cardinality(ats) = 1
        /\ \A a \in ats :
              /\ a > 1
              /\ \E d \in (a + 2)..(Len(s) - 1) : s[d] = "."

InvalidSubmission ==
    IF email_submitted
    THEN \/ sender_email = NoText \/ email_subject = NoText
         \/ email_content = NoText
         \/ ~WellFormedAddress(sender_email)
    ELSE \/ form_name = NoText \/ form_company = NoText
         \/ form_email = NoText \/ form_query = NoText
         \/ ~WellFormedAddress(form_email)

Rejected == Kinds("error.required") \cup Kinds("error.address") # {}

\* C4: a submission with an empty required field or a malformed address is
\* rejected with a validation error, no agent is created and no stage
\* executes; nothing else is rejected, so an empty designation alone is not.
C4_InvalidRejectedBeforePipeline ==
    ((email_submitted \/ form_submitted) /\ pc # "process") =>
        /\ InvalidSubmission =>
              /\ Rejected
              /\ pc = "idle"
              /\ agents = <<>> /\ tasks = <<>> /\ stageLog = <<>>
              /\ task_outputs = <<>> /\ status = <<>>
        /\ Rejected => InvalidSubmission

C4_Witness ==
    /\ ScriptOver /\ form_submitted
    /\ form_name # NoText /\ form_company # NoText
    /\ WellFormedAddress(form_email) /\ form_query = NoText
    /\ Kinds("error.required") # {}

KeyAbsentOrEmpty == environ = <<>> \/ environ = <<NoText>>

\* C5: while the credential is absent or empty, no request is served: no
\* form is read, no validation has run, no agent exists and no stage has
\* executed.
C5_NoCredentialNoProcessing ==
    KeyAbsentOrEmpty =>
        /\ pc \in { "idle", "boot", "sidebar", "credential" }
        /\ ~email_submitted /\ ~form_submitted
        /\ checked = {} /\ input_method = "unset"
        /\ agents = <<>> /\ tasks = <<>> /\ stageLog = <<>>
        /\ task_outputs = <<>> /\ result = <<>>
        /\ ScriptOver => Kinds("error.credential") # {}

C5_Witness ==
    /\ KeyAbsentOrEmpty /\ ScriptOver /\ run = 2
    /\ Kinds("error.credential") # {}

C7_RubricInBothAdapters ==
    \A i \in 1..Len(stageLog) :
        stageLog[i].stage = 3 =>
            /\ stageLog[i].description.rubric # <<>>
            /\ LET rb == stageLog[i].description.rubric[1]
               IN  /\ rb.domain_bands = { 0, 10, 20 }
                   /\ rb.role_bands = { 0, 10, 20 }
                   /\ rb.intent_bands = { 0, 10, 20 }
                   /\ FitScore(rb, TRUE, TRUE, TRUE) = 40
                   /\ \A d \in rb.domain_bands : \A r \in rb.role_bands :
                      \A n \in rb.intent_bands : \A a \in BOOLEAN :
                      \A b \in BOOLEAN : \A c \in BOOLEAN :
                         TotalScore(d, FitScore(rb, a, b, c), r, n) \in 0..100
                   /\ \A t \in 0..100 :
                         QualificationStatus(rb, t) =
                            IF t >= 80 THEN "Qualified"
                            ELSE IF t >= 50 THEN "Needs Review"
                            ELSE "Unqualified"

C7_Witness ==
    /\ input_method = "form" /\ Len(stageLog) >= 3
    /\ stageLog[3].description.rubric = <<>>

Other(method) == IF method = "email" THEN "form" ELSE "email"

\* The stages whose outputs task k of ts names as its context.
ContextStages(ts, k) ==
    { j \in 1..Len(ts) :
        \E n \in 1..Len(ts[k].context) : ts[k].context[n] = ts[j].name }

\* What a stage of the pipeline looks like from outside the instruction text.
StageShape(ts, k) ==
    [ stage |-> k, agent |-> ts[k].agent, context |-> ContextStages(ts, k) ]

\* C8 as stated: the adapters differ only in stage 1, so that stages 2..4
\* have the same agent, the same context and the same instruction
\* parameters (values formatted into the text, rubric carried by it).
C8_DifferOnlyInStage1 ==
    tasks # <<>> =>
        LET other == AdapterTasks(Other(input_method))
        IN  \A k \in 2..Len(tasks) :
               /\ StageShape(tasks, k) = StageShape(other, k)
               /\ tasks[k].description.inputs = other[k].description.inputs
               /\ tasks[k].description.rubric = other[k].description.rubric

\* C8, amended: for every stage k in 2..4 both adapters assign the stage to
\* the same agent and give it the same prior stages as context, both format
\* the same target configuration into the Score stage, and a run passes
\* through the stage shapes the other adapter would pass through.
C8_SameShapeStages2To4 ==
    tasks # <<>> =>
        LET other == AdapterTasks(Other(input_method))
        IN  /\ Len(other) = Len(tasks)
            /\ \A k \in 2..Len(tasks) :
                  /\ StageShape(tasks, k) = StageShape(other, k)
                  /\ ContextStages(tasks, k) = 1..(k - 1)
            /\ tasks[3].description.inputs = other[3].description.inputs
            /\ tasks[3].description.inputs =
                  TargetCriteria(config[1].target_config)
            /\ \A i \in 1..Len(stageLog) :
                  /\ stageLog[i].agent = other[i].agent
                  /\ { stageLog[i].context[n].stage :
                         n \in 1..Len(stageLog[i].context) }
                        = ContextStages(other, i)
                  /\ i = 3 => stageLog[i].description.inputs
                                 = other[i].description.inputs

C8_Witness ==
    /\ input_method = "form" /\ Len(stageLog) = 4 /\ Done
    /\ config[1].target_config # DefaultTargets
    /\ tasks[2].description.inputs # AdapterTasks("email")[2].description.inputs

\* C9: every accepted run reaches a terminal state, Done (stage 4 completed)
\* or Failed (something raised); once a run is terminal none of its stages
\* executes any more, and within a run the pipeline never moves backwards.
C9_RunsTerminateForwardOnly ==
    /\ Accepted ~> (Done \/ Failed)
    /\ [](ScriptOver /\ Accepted => Done \/ Failed)
    /\ [][ (run' = run /\ (Done \/ Failed)) =>
              /\ stageLog' = stageLog
              /\ task_outputs' = task_outputs
              /\ running' = running ]_vars
    /\ [][ run' = run =>
              /\ Len(task_outputs') >= Len(task_outputs)
              /\ SubSeq(task_outputs', 1, Len(task_outputs)) = task_outputs
              /\ Len(stageLog') >= Len(stageLog)
              /\ SubSeq(stageLog', 1, Len(stageLog)) = stageLog
              /\ (Len(stageLog') > Len(stageLog) /\ stageLog # <<>>) =>
                    stageLog'[Len(stageLog')].stage
                       > stageLog[Len(stageLog)].stage ]_vars

C9_Witness ==
    /\ run = 3 /\ ScriptOver /\ Accepted /\ Done /\ ~Failed
    /\ Cardinality(Kinds("footer")) = 1

FormNames ==
    [ email |-> { "sender_email", "email_subject", "email_content" },
      form  |-> { "form_name", "form_company", "form_email", "form_query" } ]

AdapterTemplates ==
    [ email |-> { "email.parse", "email.research", "email.score",
                  "email.recommend" },
      form  |-> { "form.structure", "form.research", "form.score",
                  "form.recommend" } ]

====
